---- MODULE Spec2Model ----
(***************************************************************************)
(* Model of the DNS helper functions of src/dns/util.go: the race resolver *)
(* batchExchange and the response cache insertion putMsgToCacheWithExpire  *)
(* together with the TTL helpers they use.                                 *)
(***************************************************************************)
EXTENDS Integers, Sequences, FiniteSets, TLC

\* ---------------------------------------------------------------- bounds
MaxClients == 3      \* longest client list handed to batchExchange
MaxRecords == 2      \* longest answer section of a message
MaxPuts    == 2      \* put calls of a caller
MaxTime    == 2      \* last clock value (seconds)

\* ------------------------------------------------- return codes (D.Rcode*)
RcodeSuccess       == 0
RcodeServerFailure == 2
RcodeNameError     == 3
RcodeRefused       == 5
Rcodes == {RcodeSuccess, RcodeServerFailure, RcodeNameError, RcodeRefused}

Nil == [nil |-> TRUE]

VARIABLES
  \* ---- batchExchange
  clients,      \* number of clients in the list (client i is the i-th entry)
  bpc,          \* position of batchExchange: "loop", "wait", "done"
  next,         \* index of the next client the loop launches
  apc,          \* per attempt: "idle", "running", "returned", "done"
  exch,         \* per attempt: what r.ExchangeContext returned (Nil before)
  result,       \* picker: the chosen value (Nil if none)
  perr,         \* picker: the failures folded so far, in completion order
  raceCancel,   \* the race context's cancel function has been called
  callerCancel, \* the caller's context is cancelled
  order,        \* completion order of the attempts (history)
  retMsg,       \* returned msg (Nil before return / nil)
  retErr,       \* returned err (ErrNil before return / nil)
  \* ---- response cache
  cache,        \* the LRU list, most recently used first: [key, value, expires]
  now,          \* the clock, in seconds
  callerMsg,    \* per caller: the message it owns (Nil before it has one)
  puts,         \* per caller: put calls made so far
  lastOp,       \* the last cache operation, its arguments and result
  \* ---- dialContextByProxyOrInterface
  dialIn,       \* the arguments of the call and the environment it runs in
  dialCalls,    \* the calls made to the proxy and to the low-level dialer
  dialRet,      \* the returned (conn, err), Nil before the return
  \* ---- the pure functions setTTL, genMsgCacheKey, transform
  fnArgs,       \* the arguments the function is applied to
  fnRet         \* its result, Nil before it is applied

raceVars == <<clients, bpc, next, apc, exch, result, perr, raceCancel,
              callerCancel, order, retMsg, retErr>>
cacheVars == <<cache, now, callerMsg, puts, lastOp>>
dialVars == <<dialIn, dialCalls, dialRet>>
fnVars == <<fnArgs, fnRet>>
vars == <<raceVars, cacheVars, dialVars, fnVars>>

Clients == 1..MaxClients

\* ------------------------------------------------------------ errors
\* An error value is the sequence of the leaf errors it is made of; nil is
\* the empty sequence.  A leaf is a text and the attempt that produced it.
ErrNil == <<>>
ErrAllFailed == [text |-> "all DNS requests failed", src |-> 0]
TransportErr(i) == [text |-> "transport", src |-> i]
CanceledErr(i) == [text |-> "context canceled", src |-> i]
ServerFailureErr(i) == [text |-> "server failure", src |-> i]

\* errors.New
ErrorsNew(leaf) == <<leaf>>
\* errors.Join: nil operands are dropped
ErrorsJoin(e1, e2) == e1 \o e2
\* errors2.Cause
Cause(err) == err

\* a response message of the race, the answer of client i: its return code and one answer record
RaceMsg(i, rc) == [src |-> i, Rcode |-> rc, Answer |-> <<[Ttl |-> i]>>]

\* what ExchangeContext of client i can return
ExchangeOutcomes(i, cancelled) ==
  {[mm |-> RaceMsg(i, rc), fErr |-> ErrNil] : rc \in Rcodes}
    \cup {[mm |-> Nil, fErr |-> ErrorsNew(TransportErr(i))]}
    \cup (IF cancelled THEN {[mm |-> Nil, fErr |-> ErrorsNew(CanceledErr(i))]} ELSE {})

\* the race context is derived from the caller's context
RaceCtxDone == raceCancel \/ callerCancel

\* variants of the attempt function: REFUSED let through; only SUCCESS kept
AttemptResult_AcceptsRefused(i, out) ==
  IF out.fErr # ErrNil THEN [val |-> Nil, err |-> out.fErr]
  ELSE IF out.mm.Rcode = RcodeServerFailure
       THEN [val |-> Nil, err |-> ErrorsNew(ServerFailureErr(i))]
       ELSE [val |-> out.mm, err |-> ErrNil]
AttemptResult_OnlySuccess(i, out) ==
  IF out.fErr # ErrNil THEN [val |-> Nil, err |-> out.fErr]
  ELSE IF out.mm.Rcode # RcodeSuccess
       THEN [val |-> Nil, err |-> ErrorsNew(ServerFailureErr(i))]
       ELSE [val |-> out.mm, err |-> ErrNil]

\* the function batchExchange hands to fast.Go, applied to the outcome of
\* ExchangeContext
AttemptResult(i, out) ==
  IF out.fErr # ErrNil THEN [val |-> Nil, err |-> out.fErr]
  ELSE IF out.mm.Rcode = RcodeServerFailure \/ out.mm.Rcode = RcodeRefused
       THEN [val |-> Nil, err |-> ErrorsNew(ServerFailureErr(i))]
       ELSE [val |-> out.mm, err |-> ErrNil]

\* picker.WithContext: a fresh picker and a cancellable child context
InitRace ==
  /\ clients \in 0..MaxClients
  /\ bpc = "loop"
  /\ next = 1
  /\ apc = [i \in Clients |-> "idle"]
  /\ exch = [i \in Clients |-> Nil]
  /\ result = Nil
  /\ perr = ErrNil
  /\ raceCancel = FALSE
  /\ callerCancel \in BOOLEAN
  /\ order = <<>>
  /\ retMsg = Nil
  /\ retErr = ErrNil

\* for _, clientM := range clients { fast.Go(...) }
BatchLaunch ==
  /\ bpc = "loop"
  /\ IF next <= clients
       THEN /\ apc' = [apc EXCEPT ![next] = "running"]
            /\ next' = next + 1
            /\ bpc' = bpc
       ELSE /\ bpc' = "wait"
            /\ UNCHANGED <<apc, next>>
  /\ UNCHANGED <<clients, exch, result, perr, raceCancel, callerCancel,
                 order, retMsg, retErr, cacheVars, dialVars, fnVars>>

\* mm, fErr := r.ExchangeContext(ctx, m) returns in attempt i
ExchangeContext(i) ==
  /\ apc[i] = "running"
  /\ \E out \in ExchangeOutcomes(i, RaceCtxDone) :
        exch' = [exch EXCEPT ![i] = out]
  /\ apc' = [apc EXCEPT ![i] = "returned"]
  /\ UNCHANGED <<clients, bpc, next, result, perr, raceCancel, callerCancel,
                 order, retMsg, retErr, cacheVars, dialVars, fnVars>>

\* variants of the picker: the last value wins; any completion cancels
PickerDone_LastWins(i, r) ==
  /\ IF r.err = ErrNil
       THEN /\ result' = r.val
            /\ raceCancel' = TRUE
            /\ perr' = perr
       ELSE /\ perr' = ErrorsJoin(perr, r.err)
            /\ UNCHANGED <<result, raceCancel>>
  /\ apc' = [apc EXCEPT ![i] = "done"]
  /\ order' = Append(order, i)
PickerDone_CancelsAlways(i, r) ==
  /\ IF r.err = ErrNil
       THEN /\ result' = (IF result = Nil THEN r.val ELSE result)
            /\ perr' = perr
       ELSE /\ perr' = ErrorsJoin(perr, r.err)
            /\ UNCHANGED result
  /\ raceCancel' = TRUE
  /\ apc' = [apc EXCEPT ![i] = "done"]
  /\ order' = Append(order, i)

\* picker.Go: the task's function returned; the first value wins and cancels
\* the race context, a failure is folded into the picker's error
PickerDone(i, r) ==
  /\ IF r.err = ErrNil
       THEN /\ result' = (IF result = Nil THEN r.val ELSE result)
            /\ raceCancel' = TRUE
            /\ perr' = perr
       ELSE /\ perr' = ErrorsJoin(perr, r.err)
            /\ UNCHANGED <<result, raceCancel>>
  /\ apc' = [apc EXCEPT ![i] = "done"]
  /\ order' = Append(order, i)

\* variant of the attempt: it stores the answer it got in the response cache
\* before it returns
AttemptReturn_StoresAnswer(i) ==
  /\ apc[i] = "returned"
  /\ PickerDone(i, AttemptResult(i, exch[i]))
  /\ cache' = IF exch[i].fErr = ErrNil
                THEN <<[key |-> "k1", value |-> [kind |-> "copy", val |-> exch[i].mm],
                        expires |-> now + 1]>>
                ELSE cache
  /\ UNCHANGED <<clients, bpc, next, exch, callerCancel, retMsg, retErr,
                 now, callerMsg, puts, lastOp, dialVars, fnVars>>
\* the function of attempt i returns to the picker
AttemptReturn(i) ==
  /\ apc[i] = "returned"
  /\ PickerDone(i, AttemptResult(i, exch[i]))
  /\ UNCHANGED <<clients, bpc, next, exch, callerCancel, retMsg, retErr,
                 cacheVars, dialVars, fnVars>>

\* variant of Wait: every task is awaited
WaitReady_WaitsAll == \A i \in Clients : apc[i] \in {"idle", "done"}
\* picker.Wait: blocks until a first winner or until every task is done
WaitReady == result # Nil \/ \A i \in Clients : apc[i] \in {"idle", "done"}
\* picker.Error
PickerError == perr

\* variant of the failure path: the picker's error alone is returned
BatchReturn_PickerErrOnly(elm) ==
  IF elm = Nil
    THEN [msg |-> Nil, err |-> Cause(PickerError)]
    ELSE [msg |-> elm, err |-> ErrNil]
\* variant of the failure path: the picker's error is not joined
BatchReturn_NoJoin(elm) ==
  IF elm = Nil
    THEN [msg |-> Nil, err |-> Cause(ErrorsNew(ErrAllFailed))]
    ELSE [msg |-> elm, err |-> ErrNil]

\* elm := fast.Wait() and the rest of batchExchange
BatchReturn(elm) ==
  IF elm = Nil
    THEN LET err0 == ErrorsNew(ErrAllFailed)
             fErr == PickerError
             err1 == IF fErr # ErrNil THEN ErrorsJoin(err0, fErr) ELSE err0
         IN [msg |-> Nil, err |-> Cause(err1)]
    ELSE [msg |-> elm, err |-> ErrNil]

BatchWait ==
  /\ bpc = "wait"
  /\ WaitReady
  /\ retMsg' = BatchReturn(result).msg
  /\ retErr' = BatchReturn(result).err
  /\ bpc' = "done"
  /\ UNCHANGED <<clients, next, apc, exch, result, perr, raceCancel,
                 callerCancel, order, cacheVars, dialVars, fnVars>>

\* the caller's context is cancelled (deadline, caller gives up)
CallerCancel ==
  /\ ~callerCancel
  /\ callerCancel' = TRUE
  /\ UNCHANGED <<clients, bpc, next, apc, exch, result, perr, raceCancel,
                 order, retMsg, retErr, cacheVars, dialVars, fnVars>>

\* =========================================================== TTL policy
\* uint32 values are kept as two 16-bit limbs <<hi, lo>> where the arithmetic
\* can wrap; record TTLs themselves are naturals below 2^31
Limb == 65536
U32(n) == <<n \div Limb, n % Limb>>
U32ToNat(x) == x[1] * Limb + x[2]
\* variant of U32Sub: the low limb does not borrow from the high one
U32Sub_NoBorrow(x, y) ==
  LET lo == x[2] - y[2]
      hi == x[1] - y[1]
  IN <<IF hi < 0 THEN hi + Limb ELSE hi, IF lo < 0 THEN lo + Limb ELSE lo>>
\* x - y on uint32 (wraps)
U32Sub(x, y) ==
  LET lo == x[2] - y[2]
      borrow == IF lo < 0 THEN 1 ELSE 0
      hi == x[1] - y[1] - borrow
  IN <<IF hi < 0 THEN hi + Limb ELSE hi, IF lo < 0 THEN lo + Limb ELSE lo>>
U32Less(x, y) == x[1] < y[1] \/ (x[1] = y[1] /\ x[2] < y[2])

\* variant of lo.Clamp: no upper limit
Clamp_NoUpper(value, min, max) ==
  IF U32Less(value, min) THEN min ELSE value
\* lo.Clamp
Clamp(value, min, max) ==
  IF U32Less(value, min) THEN min
  ELSE IF U32Less(max, value) THEN max
  ELSE value

\* lo.MinBy with the comparison r1.Ttl < r2.Ttl: the first smallest record,
\* Nil for an empty list.  A record is modelled by its header's Ttl field.
RECURSIVE MinByFrom(_, _, _)
MinByFrom(records, i, min) ==
  IF i > Len(records) THEN min
  ELSE MinByFrom(records, i + 1, IF records[i].Ttl < min.Ttl THEN records[i] ELSE min)
MinBy(records) ==
  IF Len(records) = 0 THEN Nil ELSE MinByFrom(records, 2, records[1])

\* variant of minTTL: the TTL of the first record
minTTL_First(records) ==
  IF Len(records) = 0 THEN 0 ELSE records[1].Ttl
minTTL(records) ==
  LET minObj == MinBy(records)
  IN IF minObj # Nil THEN minObj.Ttl ELSE 0

\* the branch of setTTL that is taken without force; ttl is a uint32 given by
\* its limbs
setTTLDecay(records, ttl) ==
  LET delta == U32Sub(U32(minTTL(records)), ttl)
  IN [i \in 1..Len(records) |->
        [records[i] EXCEPT !.Ttl =
           U32ToNat(Clamp(U32Sub(U32(records[i].Ttl), delta), U32(1),
                          U32(records[i].Ttl)))]]

setTTL(records, ttl, force) ==
  IF force
    THEN [i \in 1..Len(records) |-> [records[i] EXCEPT !.Ttl = ttl]]
    ELSE setTTLDecay(records, U32(ttl))

setMsgTTLWithForce(msg, ttl, force) ==
  [msg EXCEPT !.Answer = setTTL(msg.Answer, ttl, force),
              !.Ns = setTTL(msg.Ns, ttl, force),
              !.Extra = setTTL(msg.Extra, ttl, force)]
setMsgTTL(msg, ttl) == setMsgTTLWithForce(msg, ttl, TRUE)
setMsgMaxTTL(msg, ttl) == setMsgTTLWithForce(msg, ttl, FALSE)

\* ======================================================= response cache
Keys == {"k1", "k2"}
Callers == {1}
\* capacity of the LRU cache: one entry fewer than there are keys, so that
\* the least recently used entry is evicted
CacheSize == Cardinality(Keys) - 1
TTLs == {0, 1}
RRs == [Ttl : TTLs]
RR(ttl) == [Ttl |-> ttl]

RECURSIVE SeqsUpTo(_, _)
SeqsUpTo(S, n) ==
  IF n = 0 THEN {<<>>}
  ELSE LET shorter == SeqsUpTo(S, n - 1)
       IN shorter \cup {Append(q, x) : q \in {r \in shorter : Len(r) = n - 1}, x \in S}

\* the answer sections a caller's message can have: every list of records
\* of TTL 0 or 1, and two lists of different positive TTLs
Answers == SeqsUpTo(RRs, MaxRecords) \cup {<<RR(1), RR(2)>>, <<RR(2), RR(1)>>}
\* the messages a caller can hold; the authority and additional sections
\* hold one record of TTL 0
Msgs == [Answer : Answers, Ns : {<<RR(0)>>}, Extra : {<<RR(0)>>}]
\* the ttl overrides a caller passes: none, or one larger than any record TTL
Overrides == {0, 3}

\* A *D.Msg is a pointer: to the message object caller p owns, or to a
\* private object holding content val
Ref(p) == [kind |-> "caller", p |-> p]
Obj(val) == [kind |-> "copy", val |-> val]
Deref(ptr, heap) == IF ptr.kind = "caller" THEN heap[ptr.p] ELSE ptr.val
\* msg.Copy(): a new object with the same content
MsgCopy(ptr, heap) == Obj(Deref(ptr, heap))

\* ---- cache.LruCache
HasKey(c, key) == \E i \in 1..Len(c) : c[i].key = key
Entry(c, key) == c[CHOOSE i \in 1..Len(c) : c[i].key = key]
Without(c, key) == SelectSeq(c, LAMBDA e : e.key # key)
\* variant of SetWithExpire: an existing entry is kept
SetWithExpire_KeepsOld(c, key, value, expires) ==
  IF HasKey(c, key) THEN c
  ELSE LET c1 == <<[key |-> key, value |-> value, expires |-> expires]>> \o c
       IN IF Len(c1) > CacheSize THEN SubSeq(c1, 1, CacheSize) ELSE c1
\* SetWithExpire: insert or replace, most recently used first, evict the
\* least recently used entry beyond the capacity
SetWithExpire(c, key, value, expires) ==
  LET c1 == <<[key |-> key, value |-> value, expires |-> expires]>>
              \o Without(c, key)
  IN IF Len(c1) > CacheSize THEN SubSeq(c1, 1, CacheSize) ELSE c1
\* Get: a live entry is returned and becomes most recently used; an expired
\* one is dropped
Expired(e, t) == e.expires <= t
GetCache(c, key, t) ==
  IF ~HasKey(c, key) THEN [c |-> c, value |-> Nil]
  ELSE IF Expired(Entry(c, key), t)
         THEN [c |-> Without(c, key), value |-> Nil]
         ELSE [c |-> <<Entry(c, key)>> \o Without(c, key),
               value |-> Entry(c, key).value]

\* variants of put: no check for a zero ttl; the message is not copied
putMsgToCacheWithExpire_NoZeroCheck(c, key, msg, ttl, heap, t) ==
  LET ttl1 == IF ttl = 0 THEN minTTL(Deref(msg, heap).Answer) ELSE ttl
  IN SetWithExpire(c, key, MsgCopy(msg, heap), t + ttl1)
putMsgToCacheWithExpire_NoCopy(c, key, msg, ttl, heap, t) ==
  LET ttl1 == IF ttl = 0 THEN minTTL(Deref(msg, heap).Answer) ELSE ttl
  IN IF ttl1 = 0 THEN c
     ELSE SetWithExpire(c, key, msg, t + ttl1)

\* putMsgToCacheWithExpire(c, key, msg, ttl) with msg the pointer to the
\* caller's message and t the value of time.Now()
putMsgToCacheWithExpire(c, key, msg, ttl, heap, t) ==
  LET ttl1 == IF ttl = 0 THEN minTTL(Deref(msg, heap).Answer) ELSE ttl
  IN IF ttl1 = 0 THEN c
     ELSE SetWithExpire(c, key, MsgCopy(msg, heap), t + ttl1)
putMsgToCache(c, key, msg, heap, t) ==
  putMsgToCacheWithExpire(c, key, msg, 0, heap, t)

InitCache ==
  /\ cache = <<>>
  /\ now = 0
  /\ callerMsg = [p \in Callers |-> Nil]
  /\ puts = [p \in Callers |-> 0]
  /\ lastOp = [kind |-> "init"]

\* the ttl a put call asks for is not 0: the override, or else every answer
\* record has a positive TTL and there is at least one
EffectiveTTL(m, ttl) ==
  ttl # 0 \/ (Len(m.Answer) > 0 /\ \A i \in 1..Len(m.Answer) : m.Answer[i].Ttl > 0)

\* caller p, holding the message m it received for its query, calls
\* put(key, m, ttl)
Put(p, key, m, ttl) ==
  /\ puts[p] < MaxPuts
  /\ puts' = [puts EXCEPT ![p] = @ + 1]
  /\ callerMsg' = [callerMsg EXCEPT ![p] = m]
  /\ cache' = putMsgToCacheWithExpire(cache, key, Ref(p), ttl, callerMsg', now)
  /\ lastOp' = [kind |-> "put", p |-> p, key |-> key, ttl |-> ttl]
  /\ UNCHANGED <<now, raceVars, dialVars, fnVars>>

\* a lookup of key
Get(key) ==
  /\ lastOp.kind # "get"
  /\ LET r == GetCache(cache, key, now)
     IN /\ cache' = r.c
        /\ lastOp' = [kind |-> "get", key |-> key,
                      res |-> IF r.value = Nil THEN Nil
                              ELSE Deref(r.value, callerMsg),
                      dropped |-> IF HasKey(cache, key) /\ ~HasKey(r.c, key)
                                    THEN Entry(cache, key) ELSE Nil]
  /\ UNCHANGED <<now, callerMsg, puts, raceVars, dialVars, fnVars>>

\* caller p rewrites the TTLs of the message it owns
Mutate(p, ttl, force) ==
  /\ callerMsg[p] # Nil
  /\ lastOp.kind # "mutate"
  /\ callerMsg' = [callerMsg EXCEPT ![p] = setMsgTTLWithForce(@, ttl, force)]
  /\ lastOp' = [kind |-> "mutate", p |-> p]
  /\ UNCHANGED <<cache, now, puts, raceVars, dialVars, fnVars>>

\* a second passes
Tick ==
  /\ now < MaxTime
  /\ now' = now + 1
  /\ lastOp' = [kind |-> "tick"]
  /\ UNCHANGED <<cache, callerMsg, puts, raceVars, dialVars, fnVars>>

\* ===================================================== connection dialer
\* the network types of C.Metadata
TCP == "TCP"
UDP == "UDP"

Networks == {"tcp", "udp"}
\* a netip.Addr: the family and the text String() gives for it
Addrs == {[is4 |-> TRUE, text |-> "1.1.1.1"],
          [is4 |-> FALSE, text |-> "2001:db8::1"]}
Ports == {"53"}
\* the names the proxy registry may hold, and the selectors callers pass
ProxyNames == {"p1", "p2"}
Selectors == {"p1", "eth0"}
\* a registry: proxies with distinct names, each with its UDP capability
Registries ==
  {R \in SUBSET [name : ProxyNames, SupportUDP : BOOLEAN] :
     \A a, b \in R : a.name = b.name => a = b}
\* the calls that can fail in the environment of one dial
DialFns == {"dialer.DialContext", "proxy.ListenPacketContext",
            "proxy.DialContext"}

WithInterface(name) == [opt |-> "WithInterface", name |-> name]
WithRoutingMark(mark) == [opt |-> "WithRoutingMark", mark |-> mark]
CallerOpts == {<<>>, <<WithInterface("wlan0")>>}

AddrString(ip) == ip.text
HasColon(s) == \E i \in 1..Len(s) : SubSeq(s, i, i) = ":"
JoinHostPort(host, port) ==
  IF HasColon(host) THEN "[" \o host \o "]:" \o port
  ELSE host \o ":" \o port

\* fmt.Errorf: the text as the sequence of its pieces, %w last
Errorf(pieces, wrapped) ==
  [text |-> IF wrapped = Nil THEN pieces ELSE pieces \o wrapped.text,
   wraps |-> wrapped]

FindProxyByName(name, registry) ==
  IF \E pr \in registry : pr.name = name
    THEN [proxy |-> CHOOSE pr \in registry : pr.name = name, ok |-> TRUE]
    ELSE [proxy |-> Nil, ok |-> FALSE]

\* what a call into the dialer or into a proxy gives in environment env: the
\* connection (or packet channel) that call opened, or the call's own error
Outcome(call, env) ==
  IF call.fn \in env.fail
    THEN [conn |-> Nil, err |-> Errorf(<<call.fn, ": i/o timeout">>, Nil)]
    ELSE [conn |-> [from |-> call], err |-> Nil]

DirectOpts_NoInterface(name) == <<WithRoutingMark(0)>>
DirectOpts(name) == <<WithInterface(name), WithRoutingMark(0)>>

StrictFallback_Off(env) == FALSE
StrictFallback(env) == env.UDPFallbackMatch

FallbackMetadata_KeepsUDP(metadata) == metadata
FallbackMetadata(metadata) == [metadata EXCEPT !.NetWork = TCP]

UDPAddr(metadata) == [IP |-> metadata.DstIP, Port |-> metadata.DstPort]

ProxyDialContext(proxy, metadata, opts, env) ==
  LET call == [fn |-> "proxy.DialContext", proxy |-> proxy.name,
               metadata |-> metadata, opts |-> opts]
      r == Outcome(call, env)
  IN [conn |-> r.conn, err |-> r.err, calls |-> <<call>>]

\* the connection, the error and the calls made, in order
dialContextByProxyOrInterface(network, dstIP, port, proxyOrInterface, opts, env) ==
  LET found == FindProxyByName(proxyOrInterface, env.registry)
  IN IF ~found.ok
       THEN LET call == [fn |-> "dialer.DialContext", network |-> network,
                         address |-> JoinHostPort(AddrString(dstIP), port),
                         opts |-> DirectOpts(proxyOrInterface)]
                r == Outcome(call, env)
            IN IF r.err = Nil
                 THEN [conn |-> r.conn, err |-> Nil, calls |-> <<call>>]
                 ELSE [conn |-> Nil,
                       err |-> Errorf(<<"proxy ", proxyOrInterface,
                                        " not found, ">>, r.err),
                       calls |-> <<call>>]
       ELSE LET proxy == found.proxy
                networkType == IF network = "udp" THEN UDP ELSE TCP
                metadata == [NetWork |-> networkType, Host |-> "",
                             DstIP |-> dstIP, DstPort |-> port]
            IN IF networkType = UDP
                 THEN IF ~proxy.SupportUDP
                        THEN IF StrictFallback(env)
                               THEN [conn |-> Nil,
                                     err |-> Errorf(<<"proxy ", proxy.name,
                                               " UDP is not supported">>, Nil),
                                     calls |-> <<>>]
                               ELSE ProxyDialContext(proxy,
                                      FallbackMetadata(metadata), opts, env)
                        ELSE LET call == [fn |-> "proxy.ListenPacketContext",
                                          proxy |-> proxy.name,
                                          metadata |-> metadata,
                                          opts |-> opts]
                                 r == Outcome(call, env)
                             IN IF r.err # Nil
                                  THEN [conn |-> Nil, err |-> r.err,
                                        calls |-> <<call>>]
                                  ELSE [conn |-> [PacketConn |-> r.conn,
                                                  rAddr |-> UDPAddr(metadata)],
                                        err |-> Nil, calls |-> <<call>>]
                 ELSE ProxyDialContext(proxy, metadata, opts, env)

\* one dial request and the environment it runs in
InitDial ==
  /\ dialIn \in [network : Networks, dstIP : Addrs, port : Ports,
                 proxyOrInterface : Selectors, opts : CallerOpts,
                 env : [registry : Registries, UDPFallbackMatch : BOOLEAN,
                        fail : SUBSET DialFns]]
  /\ dialCalls = <<>>
  /\ dialRet = Nil

\* the whole of one call of dialContextByProxyOrInterface
Dial ==
  /\ dialIn # Nil
  /\ dialRet = Nil
  /\ LET r == dialContextByProxyOrInterface(dialIn.network, dialIn.dstIP,
                dialIn.port, dialIn.proxyOrInterface, dialIn.opts, dialIn.env)
     IN /\ dialCalls' = r.calls
        /\ dialRet' = [conn |-> r.conn, err |-> r.err]
  /\ UNCHANGED <<dialIn, raceVars, cacheVars, fnVars>>

\* ------------------------------------------------- the TTL rewrite alone
\* record TTLs and ttl arguments on both sides of the limb and sign borders
WideTTLs == {0, 1, 2, 5, 65536, 2147483647}
WideRRs == [Ttl : WideTTLs]
TTLArgs == {<<0, 0>>, <<0, 1>>, <<0, 2>>, <<0, 3>>, <<1, 0>>, <<1, 1>>,
            <<32768, 0>>, <<65535, 65535>>}

InitTTL ==
  /\ fnArgs \in [fn : {"setTTL"}, records : SeqsUpTo(WideRRs, MaxRecords),
                 ttl : TTLArgs]
  /\ fnRet = Nil

\* setTTL(records, ttl, false), as setMsgMaxTTL calls it for each section
SetTTL ==
  /\ fnArgs # Nil
  /\ fnArgs.fn = "setTTL"
  /\ fnRet = Nil
  /\ fnRet' = [value |-> setTTLDecay(fnArgs.records, fnArgs.ttl)]
  /\ UNCHANGED <<fnArgs, raceVars, cacheVars, dialVars>>

\* ============================================================ cache keys
\* the request context as genMsgCacheKey reads it: whether a proxy selector
\* is stored in it, and the selector
Ctxs == {[ok |-> FALSE, proxy |-> ""], [ok |-> TRUE, proxy |-> ""],
         [ok |-> TRUE, proxy |-> "a"], [ok |-> TRUE, proxy |-> "b"],
         [ok |-> TRUE, proxy |-> "a:b"]}
GetProxy(ctx) == [proxy |-> IF ctx.ok THEN ctx.proxy ELSE "", ok |-> ctx.ok]
\* D.Question
Questions == [Name : {"c.", "b:c.", "a:b:c."}, Qtype : {1, 28},
              Qclass : {1, 255}]
Requests == [ctx : Ctxs, q : Questions]

\* the verb %d of fmt.Sprintf
Digit(d) ==
  CASE d = 0 -> "0" [] d = 1 -> "1" [] d = 2 -> "2" [] d = 3 -> "3"
    [] d = 4 -> "4" [] d = 5 -> "5" [] d = 6 -> "6" [] d = 7 -> "7"
    [] d = 8 -> "8" [] d = 9 -> "9"
RECURSIVE Itoa(_)
Itoa(n) == IF n < 10 THEN Digit(n) ELSE Itoa(n \div 10) \o Digit(n % 10)

\* variant of genMsgCacheKey: the selector is left out of the key
genMsgCacheKey_NoProxy(ctx, q) ==
  q.Name \o ":" \o Itoa(q.Qtype) \o ":" \o Itoa(q.Qclass)
genMsgCacheKey(ctx, q) ==
  LET got == GetProxy(ctx)
  IN IF got.ok /\ got.proxy # ""
       THEN got.proxy \o ":" \o q.Name \o ":" \o Itoa(q.Qtype) \o ":"
              \o Itoa(q.Qclass)
       ELSE q.Name \o ":" \o Itoa(q.Qtype) \o ":" \o Itoa(q.Qclass)

\* two requests whose keys are compared
InitKey ==
  /\ fnArgs \in [fn : {"genMsgCacheKey"}, a : Requests, b : Requests]
  /\ fnRet = Nil

GenKeys ==
  /\ fnArgs # Nil
  /\ fnArgs.fn = "genMsgCacheKey"
  /\ fnRet = Nil
  /\ fnRet' = [a |-> genMsgCacheKey(fnArgs.a.ctx, fnArgs.a.q),
               b |-> genMsgCacheKey(fnArgs.b.ctx, fnArgs.b.q)]
  /\ UNCHANGED <<fnArgs, raceVars, cacheVars, dialVars>>

\* ========================================================= client setup
MaxServers == 2
\* NameServer configurations
NameServers == [Net : {"https", "dhcp", "udp", "tcp"},
                Addr : {"1.1.1.1:53", "en0"}, Proxy : {"", "p1"},
                Interface : {"", "eth0"}, IsDHCP : BOOLEAN]
\* the resolver the clients are built for
Resolvers == {"r"}

\* the constructors: a client is its variant and what it was built from
newDoHClient(url, proxy, r) ==
  [variant |-> "DoH", url |-> url, proxy |-> proxy, r |-> r]
newDHCPClient(iface) == [variant |-> "DHCP", iface |-> iface]
newClient(net, addr, proxy, iface, isDHCP, r) ==
  [variant |-> "generic", net |-> net, addr |-> addr, proxy |-> proxy,
   iface |-> iface, isDHCP |-> isDHCP, r |-> r]

\* variant of the loop body: the "dhcp" case does not leave the iteration
transformStep_NoContinue(ret, s, r) ==
  IF s.Net = "https" THEN Append(ret, newDoHClient(s.Addr, s.Proxy, r))
  ELSE IF s.Net = "dhcp"
    THEN Append(Append(ret, newDHCPClient(s.Addr)),
                newClient(s.Net, s.Addr, s.Proxy, s.Interface, s.IsDHCP, r))
  ELSE Append(ret, newClient(s.Net, s.Addr, s.Proxy, s.Interface, s.IsDHCP, r))
\* one iteration of the loop of transform
transformStep(ret, s, r) ==
  IF s.Net = "https" THEN Append(ret, newDoHClient(s.Addr, s.Proxy, r))
  ELSE IF s.Net = "dhcp" THEN Append(ret, newDHCPClient(s.Addr))
  ELSE Append(ret, newClient(s.Net, s.Addr, s.Proxy, s.Interface, s.IsDHCP, r))

RECURSIVE transformFrom(_, _, _, _)
transformFrom(servers, r, i, ret) ==
  IF i > Len(servers) THEN ret
  ELSE transformFrom(servers, r, i + 1, transformStep(ret, servers[i], r))
transform(servers, r) == transformFrom(servers, r, 1, <<>>)

InitTransform ==
  /\ fnArgs \in [fn : {"transform"}, servers : SeqsUpTo(NameServers, MaxServers),
                 r : Resolvers]
  /\ fnRet = Nil

Transform ==
  /\ fnArgs # Nil
  /\ fnArgs.fn = "transform"
  /\ fnRet = Nil
  /\ fnRet' = [value |-> transform(fnArgs.servers, fnArgs.r)]
  /\ UNCHANGED <<fnArgs, raceVars, cacheVars, dialVars>>

\* ------------------------------------- the caller of batchExchange stores
\* the key of the query under way
QueryKey == "k1"
\* caller p puts the message batchExchange returned to it under the key of
\* its query
StoreResult(p) ==
  /\ bpc = "done"
  /\ retMsg # Nil
  /\ puts[p] = 0
  /\ puts' = [puts EXCEPT ![p] = 1]
  /\ callerMsg' = [callerMsg EXCEPT ![p] = retMsg]
  /\ cache' = putMsgToCache(cache, QueryKey, Ref(p), callerMsg', now)
  /\ lastOp' = [kind |-> "put", p |-> p, key |-> QueryKey, ttl |-> 0]
  /\ UNCHANGED <<now, raceVars, dialVars, fnVars>>

NextRace ==
  \/ BatchLaunch
  \/ \E i \in Clients : ExchangeContext(i)
  \/ \E i \in Clients : AttemptReturn(i)
  \/ BatchWait
  \/ CallerCancel

NextCache ==
  \/ \E p \in Callers, key \in Keys, m \in Msgs, ttl \in Overrides : Put(p, key, m, ttl)
  \/ \E key \in Keys : Get(key)
  \/ \E p \in Callers, ttl \in TTLs, force \in BOOLEAN : Mutate(p, ttl, force)
  \/ Tick

\* the race of one query, the cache left alone
\* no dial in progress and no function under study
InitDialIdle == dialIn = Nil /\ dialCalls = <<>> /\ dialRet = Nil
InitFnIdle == fnArgs = Nil /\ fnRet = Nil
InitSpecRace == InitRace /\ InitCache /\ InitDialIdle /\ InitFnIdle
SpecRace == InitSpecRace /\ [][NextRace]_vars
\* the cache and its callers, no race running
\* no race in progress
InitRaceIdle == InitRace /\ clients = 0 /\ ~callerCancel
InitSpecCache == InitRaceIdle /\ InitCache /\ InitDialIdle /\ InitFnIdle
SpecCache == InitSpecCache /\ [][NextCache]_vars

\* one dial, no race and no cache traffic
NextDial == Dial
InitSpecDial == InitRaceIdle /\ InitCache /\ InitDial /\ InitFnIdle
SpecDial == InitSpecDial /\ [][NextDial]_vars

\* the decaying TTL rewrite applied to one record list
NextTTL == SetTTL
InitSpecTTL == InitRaceIdle /\ InitCache /\ InitDialIdle /\ InitTTL
SpecTTL == InitSpecTTL /\ [][NextTTL]_vars

\* the keys of two requests
NextKey == GenKeys
InitSpecKey == InitRaceIdle /\ InitCache /\ InitDialIdle /\ InitKey
SpecKey == InitSpecKey /\ [][NextKey]_vars

\* the clients built from one list of server configurations
NextTransform == Transform
InitSpecTransform == InitRaceIdle /\ InitCache /\ InitDialIdle /\ InitTransform
SpecTransform == InitSpecTransform /\ [][NextTransform]_vars

\* one query: its race, and its caller storing the result
NextQuery ==
  \/ NextRace
  \/ \E p \in Callers : StoreResult(p)
InitSpecQuery == InitRace /\ InitCache /\ InitDialIdle /\ InitFnIdle
SpecQuery == InitSpecQuery /\ [][NextQuery]_vars

\* the race of one query with a fair scheduler for the goroutine that runs
\* batchExchange; the attempts may stay blocked in their exchange forever
FairSpecRace ==
  InitSpecRace /\ [][NextRace]_vars
    /\ WF_vars(BatchLaunch) /\ WF_vars(BatchWait)

\* ============================================================== claims
\* what the claims call an acceptable outcome of ExchangeContext
Acceptable(out) ==
  IF out = Nil THEN FALSE
  ELSE /\ out.fErr = ErrNil
       /\ out.mm.Rcode # RcodeServerFailure
       /\ out.mm.Rcode # RcodeRefused
Launched == 1..clients
Returned == bpc = "done"
Contains(err, leaf) == \E n \in 1..Len(err) : err[n] = leaf

\* C1: a message returned by batchExchange was returned without error by the
\* ExchangeContext call of one of the clients and its return code is neither
\* SERVER-FAILURE nor REFUSED.
C1_ResultIsAcceptable ==
  (Returned /\ retMsg # Nil) =>
     \E i \in Launched : Acceptable(exch[i]) /\ exch[i].mm = retMsg
\* a message was returned although one attempt finished with REFUSED and
\* another with a transport error
C1_Witness ==
  /\ Returned /\ retMsg # Nil
  /\ \E i, j \in Launched :
       /\ apc[i] = "done" /\ exch[i].fErr = ErrNil
       /\ exch[i].mm.Rcode = RcodeRefused
       /\ apc[j] = "done" /\ exch[j].fErr # ErrNil

\* the failure attempt i contributes: its transport error, or "server
\* failure" for a rejected message
FailureLeaves(i) ==
  IF exch[i].fErr # ErrNil THEN {exch[i].fErr[n] : n \in 1..Len(exch[i].fErr)}
  ELSE {ServerFailureErr(i)}
\* C2: if every attempt fails, batchExchange returns no message and one
\* error that holds the "all DNS requests failed" marker and the failure of
\* every attempt.
C2_AllFailuresAggregated ==
  (Returned /\ \A i \in Launched : apc[i] = "done" /\ ~Acceptable(exch[i])) =>
     /\ retMsg = Nil
     /\ Contains(retErr, ErrAllFailed)
     /\ \A i \in Launched : \A leaf \in FailureLeaves(i) : Contains(retErr, leaf)
\* two attempts failed, one with a transport error and one with a rejected
\* message, and batchExchange has returned
C2_Witness ==
  /\ Returned /\ retMsg = Nil
  /\ \E i, j \in Launched :
       /\ exch[i] # Nil /\ exch[i].fErr # ErrNil
       /\ exch[j] # Nil /\ exch[j].fErr = ErrNil /\ ~Acceptable(exch[j])

\* C3: if some attempt returns an acceptable message, batchExchange returns
\* a message and no error, in whatever order the attempts complete; a
\* failure does not end the race while other attempts are unfinished.
C3_SuccessBeatsFailures ==
  Returned =>
    /\ (\E i \in Launched : Acceptable(exch[i])) => (retMsg # Nil /\ retErr = ErrNil)
    /\ retMsg = Nil => \A i \in Launched : apc[i] = "done"
\* the first attempt to complete failed and the second one won
C3_Witness ==
  /\ Returned /\ retMsg # Nil /\ Len(order) >= 2
  /\ ~Acceptable(exch[order[1]])
  /\ retMsg = exch[order[2]].mm

\* C4: once an attempt has completed with an acceptable message,
\* batchExchange returns a message although other attempts never complete.
C4_ReturnsWithoutStragglers ==
  (\E i \in Launched : apc[i] = "done" /\ Acceptable(exch[i]))
    ~> (Returned /\ retMsg # Nil)
\* batchExchange has returned a message while an attempt is still blocked in
\* its exchange
C4_Witness ==
  /\ Returned /\ retMsg # Nil
  /\ \E j \in Launched : apc[j] = "running"

\* the attempts that completed acceptably, and the first of them
AcceptableAt == {n \in 1..Len(order) : Acceptable(exch[order[n]])}
FirstAcceptable == order[CHOOSE n \in AcceptableAt : \A k \in AcceptableAt : n <= k]
\* C5: the value chosen, and returned, is the message of the first attempt
\* in completion order that finished acceptably; later completions do not
\* change it and the position in the client list gives no priority.
C5_FirstPastThePost ==
  /\ result # Nil => (AcceptableAt # {} /\ result = exch[FirstAcceptable].mm)
  /\ (Returned /\ retMsg # Nil) =>
        (AcceptableAt # {} /\ retMsg = exch[FirstAcceptable].mm)
\* client 1 completed acceptably after a later client had already won
C5_Witness ==
  /\ Returned /\ retMsg # Nil /\ retMsg.src > 1
  /\ apc[1] = "done" /\ Acceptable(exch[1])

\* C6: the race context is cancelled as soon as a first winner is
\* available, only a winner cancels it, an attempt sees a cancellation only
\* of the race context or of the caller's context it derives from, and
\* cancelling does not change the chosen result.
C6_Step ==
  /\ result' # Nil => raceCancel'
  /\ (raceCancel' /\ ~raceCancel) =>
        /\ result = Nil /\ result' # Nil
        /\ \E i \in Launched : Acceptable(exch[i]) /\ result' = exch[i].mm
  /\ \A i \in Launched :
        (exch[i] = Nil /\ exch'[i] # Nil /\ exch'[i].fErr = ErrorsNew(CanceledErr(i)))
           => (raceCancel \/ callerCancel)
  /\ raceCancel => result' = result
C6_RaceContext == [][C6_Step]_vars
\* a failure completed first, a winner then cancelled the race context, and
\* an attempt is still running
C6_Witness ==
  /\ raceCancel /\ ~callerCancel /\ Len(order) >= 2
  /\ ~Acceptable(exch[order[1]])
  /\ \E j \in Launched : apc[j] = "running"

\* ---- claims about the response cache
\* the put call a step makes: its key, ttl override and message content
PutStep == lastOp'.kind = "put"
PutMsg == callerMsg'[lastOp'.p]
\* the entries a step adds to the cache
Inserted == {cache'[n] : n \in 1..Len(cache')} \ {cache[n] : n \in 1..Len(cache)}
\* the cache as a reader sees it: every entry with the content of its message
CacheContents ==
  [n \in 1..Len(cache) |->
     [key |-> cache[n].key, msg |-> Deref(cache[n].value, callerMsg),
      expires |-> cache[n].expires]]
\* the smallest TTL of a non-empty record list
LeastTTL(records) ==
  CHOOSE t \in {records[n].Ttl : n \in 1..Len(records)} :
    \A n \in 1..Len(records) : t <= records[n].Ttl

\* C7: a put with ttl override 0 of a message whose answer section is empty
\* or holds a record of TTL 0 leaves the cache unchanged, and every entry a
\* put inserts expires strictly after the time of the insertion.
C7_Step ==
  PutStep =>
    /\ (lastOp'.ttl = 0 /\ (Len(PutMsg.Answer) = 0
                             \/ \E n \in 1..Len(PutMsg.Answer) : PutMsg.Answer[n].Ttl = 0))
          => cache' = cache
    /\ \A e \in Inserted : e.expires > now
C7_NoZeroTTLInsert == [][C7_Step]_vars
\* a put without override of a message with a zero-TTL answer record has
\* just been made on a cache that holds an entry
C7_Witness ==
  /\ lastOp.kind = "put" /\ lastOp.ttl = 0 /\ Len(cache) > 0
  /\ Len(callerMsg[lastOp.p].Answer) = 2
  /\ callerMsg[lastOp.p].Answer[1].Ttl = 0
  /\ callerMsg[lastOp.p].Answer[2].Ttl > 0

\* C8: a get right after a put that stores returns the answer content that
\* was put, and a rewrite of the caller's message leaves every cached
\* message as it was.
C8_Step ==
  /\ (/\ lastOp'.kind = "get" /\ lastOp.kind = "put"
      /\ lastOp'.key = lastOp.key
      /\ EffectiveTTL(callerMsg[lastOp.p], lastOp.ttl))
        => (lastOp'.res # Nil /\ lastOp'.res.Answer = callerMsg[lastOp.p].Answer)
  /\ lastOp'.kind = "mutate" => CacheContents' = CacheContents
C8_CopyIsolation == [][C8_Step]_vars
\* the caller's only put stored its message and the caller has since
\* rewritten its own message to something else
C8_Witness ==
  /\ lastOp.kind = "mutate" /\ puts[lastOp.p] = 1 /\ Len(cache) = 1
  /\ callerMsg[lastOp.p] # Deref(cache[1].value, callerMsg)

\* C9: an entry a put stores expires at now + ttl, ttl being the override if
\* not 0 and else the least TTL of the answer section alone; a get after the
\* expiry has passed returns nothing.
C9_Step ==
  /\ PutStep =>
       \A e \in Inserted :
         /\ e.key = lastOp'.key
         /\ IF lastOp'.ttl # 0 THEN e.expires = now + lastOp'.ttl
            ELSE /\ Len(PutMsg.Answer) > 0
                 /\ e.expires = now + LeastTTL(PutMsg.Answer)
  /\ (/\ lastOp'.kind = "get" /\ HasKey(cache, lastOp'.key)
      /\ Entry(cache, lastOp'.key).expires < now)
        => lastOp'.res = Nil
C9_ExpiryFromTTL == [][C9_Step]_vars
\* after a single put of a message with two answer records of different
\* TTLs, a get found the entry expired and returned nothing
C9_Witness ==
  /\ lastOp.kind = "get" /\ lastOp.res = Nil /\ lastOp.dropped # Nil
  /\ \A p \in Callers : puts[p] <= 1
  /\ lastOp.dropped.expires < now
  /\ Len(Deref(lastOp.dropped.value, callerMsg).Answer) = 2
  /\ Deref(lastOp.dropped.value, callerMsg).Answer[1].Ttl
       > Deref(lastOp.dropped.value, callerMsg).Answer[2].Ttl

\* the content a get of key k would return now (Nil for nothing)
LookupMsg(k) ==
  LET v == GetCache(cache, k, now).value
  IN IF v = Nil THEN Nil ELSE Deref(v, callerMsg)
C10_Step ==
  \A k \in Keys :
    IF PutStep /\ lastOp'.key = k /\ EffectiveTTL(PutMsg, lastOp'.ttl)
      THEN LookupMsg(k)' = PutMsg
      ELSE LookupMsg(k)' = LookupMsg(k) \/ LookupMsg(k)' = Nil
DialDone == dialIn # Nil /\ dialRet # Nil
\* the proxy the selector of the dial resolves to, if it resolves
DialFound == FindProxyByName(dialIn.proxyOrInterface, dialIn.env.registry)
\* a UDP dial through a registered proxy that reports no UDP support
UDPMismatch ==
  /\ dialIn.network = "udp"
  /\ DialFound.ok
  /\ ~DialFound.proxy.SupportUDP
\* the strings of which the text of err is made
TextPieces(err) == {err.text[i] : i \in 1..Len(err.text)}
\* the one TCP stream dial the fallback is to make
FallbackCall ==
  [fn |-> "proxy.DialContext", proxy |-> dialIn.proxyOrInterface,
   metadata |-> [NetWork |-> TCP, Host |-> "", DstIP |-> dialIn.dstIP,
                 DstPort |-> dialIn.port],
   opts |-> dialIn.opts]

\* C11: a udp dial through a registered proxy without UDP support, the strict
\* flag off, makes exactly one call, a TCP stream dial through that same proxy
\* to (dstIP, port) with metadata network TCP, and returns that call's result;
\* no packet channel is opened and no other proxy or direct dial is made.
C11_FallbackToTCP ==
  (DialDone /\ UDPMismatch /\ ~dialIn.env.UDPFallbackMatch) =>
    /\ dialCalls = <<FallbackCall>>
    /\ dialRet = [conn |-> Outcome(FallbackCall, dialIn.env).conn,
                  err |-> Outcome(FallbackCall, dialIn.env).err]

C11_Witness ==
  /\ DialDone /\ UDPMismatch /\ ~dialIn.env.UDPFallbackMatch
  /\ "proxy.ListenPacketContext" \notin dialIn.env.fail
  /\ dialRet.conn = [from |-> FallbackCall]
  /\ Cardinality(dialIn.env.registry) = 2

\* C12: a udp dial through a registered proxy without UDP support, the strict
\* flag on, makes no call at all (no packet channel, no TCP stream, no direct
\* dial) and returns no connection and the 'UDP is not supported' error.
C12_StrictMismatchFails ==
  (DialDone /\ UDPMismatch /\ dialIn.env.UDPFallbackMatch) =>
    /\ dialCalls = <<>>
    /\ dialRet.conn = Nil
    /\ dialRet.err # Nil
    /\ dialRet.err.text = <<"proxy ", dialIn.proxyOrInterface,
                            " UDP is not supported">>
    /\ dialRet.err.wraps = Nil

C12_Witness ==
  /\ DialDone /\ UDPMismatch /\ dialIn.env.UDPFallbackMatch
  /\ dialIn.env.fail = {}
  /\ dialRet.conn = Nil

\* the direct dial an unregistered selector leads to
DirectCall ==
  [fn |-> "dialer.DialContext", network |-> dialIn.network,
   address |-> IF dialIn.dstIP.is4
                 THEN dialIn.dstIP.text \o ":" \o dialIn.port
                 ELSE "[" \o dialIn.dstIP.text \o "]:" \o dialIn.port,
   opts |-> <<[opt |-> "WithInterface", name |-> dialIn.proxyOrInterface],
              [opt |-> "WithRoutingMark", mark |-> 0]>>]

\* C13: a selector the registry does not hold leads to exactly one call, a
\* direct dial of the requested network to (dstIP, port) bound to the selector
\* as interface with routing mark 0; its connection is returned when it
\* succeeds, and when it fails the result is no connection and an error whose
\* text names the selector and which wraps the error of the dial.
C13_NotFoundDialsDirect ==
  (DialDone /\ ~DialFound.ok) =>
    /\ dialCalls = <<DirectCall>>
    /\ IF "dialer.DialContext" \in dialIn.env.fail
         THEN /\ dialRet.conn = Nil
              /\ dialRet.err # Nil
              /\ dialIn.proxyOrInterface \in TextPieces(dialRet.err)
              /\ dialRet.err.wraps = Outcome(DirectCall, dialIn.env).err
         ELSE dialRet = [conn |-> [from |-> DirectCall], err |-> Nil]

C13_Witness ==
  /\ DialDone /\ ~DialFound.ok
  /\ "dialer.DialContext" \in dialIn.env.fail
  /\ dialIn.env.registry # {}
  /\ ~dialIn.dstIP.is4
  /\ dialIn.opts # <<>>
  /\ dialRet.err # Nil

\* ----------------------------------------------------------- TTL rewrite
TTLDone == fnArgs # Nil /\ fnArgs.fn = "setTTL" /\ fnRet # Nil
Before(i) == fnArgs.records[i].Ttl
After(i) == fnRet.value[i].Ttl
RecordIdx == 1..Len(fnArgs.records)

\* the statement of C14 as first made: every record ends within [1, original]
C14_AlwaysWithinRange ==
  TTLDone => \A i \in RecordIdx : 1 <= After(i) /\ After(i) <= Before(i)

\* C14: for every record list and every 32-bit ttl the decaying rewrite keeps
\* the length of the list, leaves each record whose original TTL is at least 1
\* within [1, original TTL]; a record whose original TTL is 0 ends with TTL 1
\* when ttl is 0 too and keeps TTL 0 otherwise.
C14_WithinRange ==
  TTLDone =>
    /\ Len(fnRet.value) = Len(fnArgs.records)
    /\ \A i \in RecordIdx :
         IF Before(i) >= 1 THEN 1 <= After(i) /\ After(i) <= Before(i)
         ELSE After(i) = IF fnArgs.ttl = U32(0) THEN 1 ELSE 0

\* a wrapping subtraction: ttl above the original minimum, a record left alone
\* and a record with a large TTL in the same list
C14_Witness ==
  /\ TTLDone
  /\ Len(fnArgs.records) = 2
  /\ U32Less(U32(minTTL(fnArgs.records)), fnArgs.ttl)
  /\ fnArgs.ttl[1] >= 32768
  /\ Before(1) = 2 /\ After(1) = 2
  /\ Before(2) = 2147483647 /\ After(2) = Before(2)

\* ttl below the original minimum of a list that has one
TTLBelowMin ==
  /\ Len(fnArgs.records) > 0
  /\ U32Less(fnArgs.ttl, U32(minTTL(fnArgs.records)))
\* what the statement of C15 promises of the rewritten list
ShiftedToTTL ==
  /\ minTTL(fnRet.value) = U32ToNat(fnArgs.ttl)
  /\ \A i \in RecordIdx :
       After(i) = Before(i) - (minTTL(fnArgs.records) - U32ToNat(fnArgs.ttl))

\* the statement of C15 as first made: any ttl below the original minimum
C15_MinBecomesAnyTTL == (TTLDone /\ TTLBelowMin) => ShiftedToTTL

\* C15: for every non-empty record list and every ttl with
\* 1 <= ttl < original minimum TTL, the decaying rewrite makes the minimum TTL
\* of the list equal to ttl and lowers every record by (original minimum -
\* ttl), so differences between records are kept.  For ttl 0 the records that
\* hold the minimum end at 1 and the others drop by the original minimum.
C15_MinBecomesTTL ==
  (TTLDone /\ TTLBelowMin) =>
    IF U32Less(U32(0), fnArgs.ttl) THEN ShiftedToTTL
    ELSE /\ minTTL(fnRet.value) = 1
         /\ \A i \in RecordIdx :
              After(i) = IF Before(i) = minTTL(fnArgs.records) THEN 1
                         ELSE Before(i) - minTTL(fnArgs.records)

C15_Witness ==
  /\ TTLDone /\ TTLBelowMin
  /\ fnArgs.ttl = <<1, 1>>
  /\ Len(fnArgs.records) = 2
  /\ Before(1) = 2147483647 /\ Before(2) = 2147483647
  /\ After(2) = 65537

\* ------------------------------------------------------------ cache keys
KeysDone == fnArgs # Nil /\ fnArgs.fn = "genMsgCacheKey" /\ fnRet # Nil
\* the proxy a request selects: a selector that is absent and one that is
\* empty both select none
SelectedProxy(req) == IF req.ctx.ok THEN req.ctx.proxy ELSE ""

\* C16: two requests with the same selected proxy and the same question get
\* the same key, and two requests with the same question and different
\* selected proxies (one of them possibly selecting none) get different keys.
C16_SameQuestionKeys ==
  (KeysDone /\ fnArgs.a.q = fnArgs.b.q) =>
    (fnRet.a = fnRet.b <=> SelectedProxy(fnArgs.a) = SelectedProxy(fnArgs.b))

\* a selector that is a prefix of the other, and a question name with ":"
C16_Witness ==
  /\ KeysDone
  /\ fnArgs.a.q = fnArgs.b.q
  /\ fnArgs.a.q.Name = "b:c."
  /\ fnArgs.a.ctx.proxy = "a" /\ fnArgs.b.ctx.proxy = "a:b"
  /\ fnRet.a = "a:b:c.:28:255"
  /\ fnRet.b # fnRet.a

\* C17: two requests whose selected proxies differ (one of them possibly
\* selecting none) never get the same key, whatever their questions are.
C17_ProxiesNeverShareKey ==
  (KeysDone /\ SelectedProxy(fnArgs.a) # SelectedProxy(fnArgs.b)) =>
    fnRet.a # fnRet.b

\* ---------------------------------------------------------- client setup
TransformDone == fnArgs # Nil /\ fnArgs.fn = "transform" /\ fnRet # Nil
\* client c is of the variant configuration s asks for and carries its fields
ClientMatches(c, s) ==
  IF s.Net = "https"
    THEN c.variant = "DoH" /\ c.url = s.Addr /\ c.proxy = s.Proxy
  ELSE IF s.Net = "dhcp"
    THEN c.variant = "DHCP" /\ c.iface = s.Addr
  ELSE /\ c.variant = "generic"
       /\ c.net = s.Net /\ c.addr = s.Addr /\ c.proxy = s.Proxy
       /\ c.iface = s.Interface /\ c.isDHCP = s.IsDHCP

\* C18: transform returns exactly one client per server configuration, in
\* input order: the i-th client is the DoH variant if the i-th configuration's
\* network is "https", the DHCP variant if it is "dhcp", and else the generic
\* variant with that configuration's network, address, proxy selector,
\* interface and DHCP flag.
C18_OneClientPerServer ==
  TransformDone =>
    /\ Len(fnRet.value) = Len(fnArgs.servers)
    /\ \A i \in 1..Len(fnArgs.servers) :
         ClientMatches(fnRet.value[i], fnArgs.servers[i])

C18_Witness ==
  /\ TransformDone
  /\ Len(fnArgs.servers) = 2
  /\ fnArgs.servers[1].Net = "dhcp"
  /\ fnArgs.servers[2].Net = "tcp"
  /\ fnArgs.servers[2].Proxy = "p1"
  /\ fnRet.value[1].variant = "DHCP"
  /\ fnRet.value[2].variant = "generic"

\* ------------------------------------------------- the race and the cache
\* C19: in every interleaving of one query's race no step of batchExchange or
\* of an attempt changes the response cache; the cache changes only after
\* batchExchange has returned a message, and every message it then holds is
\* that message, whatever the stragglers return afterwards.
C19_Step ==
  cache' # cache =>
    /\ bpc = "done" /\ bpc' = "done"
    /\ retMsg # Nil
    /\ apc' = apc /\ exch' = exch /\ result' = result
    /\ \A n \in 1..Len(cache') :
         Deref(cache'[n].value, callerMsg') = retMsg
C20_MessageXorError ==
  Returned =>
    /\ (retMsg # Nil) # (retErr # ErrNil)
    /\ clients = 0 =>
         /\ retMsg = Nil
         /\ retErr = <<ErrAllFailed>>
         /\ order = <<>>
         /\ \A i \in Clients : apc[i] = "idle" /\ exch[i] = Nil

C20_Witness ==
  /\ Returned
  /\ clients = 0
  /\ retMsg = Nil
  /\ Len(retErr) = 1
====
